---- MODULE Spec2Model ----
(***************************************************************************)
(* The Drell-Yan Monte Carlo tutorial of como-2025: the phase-space        *)
(* generator hadronic_ps_gen, the squared matrix element                   *)
(* photon_photon_matrix_element, and the histogram filler fill_grid /      *)
(* generate_grid.                                                          *)
(*                                                                         *)
(* Numbers.  The program computes in binary floating point.  The model     *)
(* keeps that: a number is a pair <<m, e>> standing for m * 2^e, with a    *)
(* significand of P bits, and every arithmetic operation rounds its exact  *)
(* result to the nearest such number, ties to even, as IEEE 754 does.  P   *)
(* is small (the program's is 53) so that TLC can enumerate; the exponent  *)
(* is unbounded (the program's values stay far from overflow and           *)
(* underflow).  The library functions pow, log, sqrt and acosh are         *)
(* computed with W = P + 6 bits and then rounded to P bits, which gives    *)
(* results within about half a unit in the last place, as libm does.       *)
(***************************************************************************)
EXTENDS Integers, Sequences, FiniteSets, TLC

\* Bits of the significand of a floating-point number of the model.
P == 7
\* The largest number of trials generate_grid is called with.
MaxCalls == 2

\* Bits of the working precision of the library functions.
W == P + 6

(***************************************************************************)
(* The state.                                                              *)
(*   rng    the state of numpy's global random generator                   *)
(*   rng0   the generator state when the running call began                *)
(*   pc     where the program is: "idle" between calls, "fill" in the loop *)
(*          of fill_grid, "done" after a call returned, "raised" after an  *)
(*          exception ended it                                             *)
(*   cfg    the arguments <<mmin, mmax>> of the last hadronic_ps_gen call  *)
(*          made on its own                                                *)
(*   point  what that call returned or raised                              *)
(*   calls  the argument of generate_grid                                  *)
(*   iter   the number of loop iterations of fill_grid completed           *)
(*   grid   the histogram: the sum of the weights filled into each bin     *)
(*   ev     the last trial: its point, observables, weight and bin         *)
(*   fills  the arguments of the grid.fill calls of this run, in order     *)
(*   prev   the previous run of generate_grid: its starting generator      *)
(*          state, calls, fills and histogram                              *)
(*   me     the last call of photon_photon_matrix_element made on its own  *)
(*   koch   the Koch-curve cell of the PDF notebook: its loop variable i,   *)
(*          all_points, new_points and the position in its loops           *)
(*   qc     the circuits of the Grover notebook: the oracle, the diffusion *)
(*          operator and the circuit c that build_grover is building       *)
(*   readout the readout cell of the Grover notebook: the frequencies and  *)
(*          what it reports                                                *)
(*   shares the trials shared among workers: for each of the runs its      *)
(*          number of trials n, iterations done it, generator state g,     *)
(*          exception err and histogram hist, and the sum of the private   *)
(*          histograms                                                     *)
(***************************************************************************)
VARIABLES rng, rng0, pc, cfg, point, calls, iter, grid, ev, fills, prev, me,
          shares, koch, qc, readout
vars ==
  <<rng, rng0, pc, cfg, point, calls, iter, grid, ev, fills, prev, me, shares,
    koch, qc, readout>>

---------------------------------------------------------------------------
(* Floating-point arithmetic: round to nearest, ties to even.              *)

\* The number of bits of n, 0 <= n < 2^31.
BitLen4(n) == IF n < 4 THEN (IF n < 2 THEN n ELSE 2) ELSE (IF n < 8 THEN 3 ELSE 4)
BitLen8(n) == IF n < 16 THEN BitLen4(n) ELSE 4 + BitLen4(n \div 16)
BitLen16(n) == IF n < 256 THEN BitLen8(n) ELSE 8 + BitLen8(n \div 256)
BitLen(n) == IF n < 65536 THEN BitLen16(n) ELSE 16 + BitLen16(n \div 65536)

Sign(n) == IF n < 0 THEN -1 ELSE 1
Mag(n) == IF n < 0 THEN -n ELSE n

\* The number of p significant bits nearest to n * 2^e, in steps: the
\* rounded significand q may carry into one more bit; q is the quotient qt,
\* up by one when the remainder r is above half, or is half and qt is odd;
\* a significand a of len bits is shifted left when it is short.
RndCarry(sg, q, e, p) ==
  IF q = 2^p THEN <<sg * 2^(p - 1), e + 1>> ELSE <<sg * q, e>>
RndNear(sg, qt, r, half, e, p) ==
  RndCarry(sg, IF r > half \/ (r = half /\ qt % 2 = 1) THEN qt + 1 ELSE qt, e, p)
RndBits(sg, a, len, e, p) ==
  IF len <= p
  THEN <<sg * a * 2^(p - len), e - (p - len)>>
  ELSE RndNear(sg, a \div 2^(len - p), a % 2^(len - p), 2^(len - p - 1), e + (len - p), p)
Rnd(n, e, p) ==
  IF n = 0 THEN <<0, 0>> ELSE RndBits(Sign(n), Mag(n), BitLen(Mag(n)), e, p)
RndPair(v, p) == Rnd(v[1], v[2], p)

Zero == <<0, 0>>
Neg(a) == <<-a[1], a[2]>>
Abs(a) == <<Mag(a[1]), a[2]>>

\* a * b rounded to p bits.
Mul(a, b, p) == Rnd(a[1] * b[1], a[2] + b[2], p)

\* a + b rounded to p bits.  An operand too far below the other to be
\* aligned in 30 bits only decides the direction of the rounding.
Aligned(hi, lo, room) ==
  IF hi[2] - lo[2] <= room
  THEN <<hi[1] * 2^(hi[2] - lo[2]) + lo[1], lo[2]>>
  ELSE <<hi[1] * 2^room + Sign(lo[1]), hi[2] - room>>
Sum(a, b) ==
  IF a[1] = 0 THEN b
  ELSE IF b[1] = 0 THEN a
  ELSE IF a[2] < b[2] THEN Aligned(b, a, 30 - BitLen(Mag(b[1])))
  ELSE Aligned(a, b, 30 - BitLen(Mag(a[1])))
Add(a, b, p) == RndPair(Sum(a, b), p)

Sub(a, b, p) == Add(a, Neg(b), p)

\* a / b rounded to p bits, b nonzero: W + 2 quotient bits and a sticky bit.
DivQuot(sg, num, den, e, p) ==
  Rnd(sg * (2 * (num \div den) + (IF num % den # 0 THEN 1 ELSE 0)), e, p)
Div(a, b, p) ==
  IF a[1] = 0 THEN Zero
  ELSE DivQuot(IF (a[1] > 0) = (b[1] > 0) THEN 1 ELSE -1, Mag(a[1]) * 2^(W + 2),
               Mag(b[1]), a[2] - b[2] - (W + 2) - 1, p)

\* The integer square root of n, 0 <= n < 2^31, one bit at a time.
SqrtBit(r, k, n) ==
  IF r + 2^k <= 46340 /\ (r + 2^k) * (r + 2^k) <= n THEN r + 2^k ELSE r
ISqrt12(n) == SqrtBit(SqrtBit(SqrtBit(SqrtBit(0, 15, n), 14, n), 13, n), 12, n)
ISqrt8(n) == SqrtBit(SqrtBit(SqrtBit(SqrtBit(ISqrt12(n), 11, n), 10, n), 9, n), 8, n)
ISqrt4(n) == SqrtBit(SqrtBit(SqrtBit(SqrtBit(ISqrt8(n), 7, n), 6, n), 5, n), 4, n)
ISqrt(n) == SqrtBit(SqrtBit(SqrtBit(SqrtBit(ISqrt4(n), 3, n), 2, n), 1, n), 0, n)

\* The square root of a >= 0 rounded to p bits: the significand is scaled
\* by 2^k to 29 or 30 bits with an even exponent e, and r is its root.
SqrtRoot(n, r, e, p) == Rnd(2 * r + (IF r * r # n THEN 1 ELSE 0), (e \div 2) - 1, p)
SqrtScaled(n, e, p) == SqrtRoot(n, ISqrt(n), e, p)
SqrtEven(a, k, p) == SqrtScaled(a[1] * 2^k, a[2] - k, p)
SqrtShift(a, k0, p) == SqrtEven(a, IF (a[2] - k0) % 2 # 0 THEN k0 - 1 ELSE k0, p)
Sqrt(a, p) == IF a[1] = 0 THEN Zero ELSE SqrtShift(a, 30 - BitLen(a[1]), p)

\* The sign of a - b, exactly: -1, 0 or 1.  For two numbers of the same sign
\* sg, the positions ta and tb of the leading bits decide, and when they are
\* equal the aligned significands ma and mb do.
CmpSame(sg, ta, tb, ma, mb) ==
  IF ta # tb THEN (IF ta > tb THEN sg ELSE -sg)
  ELSE IF ma = mb THEN 0
  ELSE IF ma > mb THEN sg ELSE -sg
Cmp(a, b) ==
  IF a[1] = 0 /\ b[1] = 0 THEN 0
  ELSE IF a[1] = 0 THEN (IF b[1] > 0 THEN -1 ELSE 1)
  ELSE IF b[1] = 0 THEN (IF a[1] > 0 THEN 1 ELSE -1)
  ELSE IF (a[1] > 0) # (b[1] > 0) THEN (IF a[1] > 0 THEN 1 ELSE -1)
  ELSE CmpSame(Sign(a[1]), BitLen(Mag(a[1])) + a[2], BitLen(Mag(b[1])) + b[2],
               IF a[2] >= b[2] THEN Mag(a[1]) * 2^(a[2] - b[2]) ELSE Mag(a[1]),
               IF a[2] >= b[2] THEN Mag(b[1]) ELSE Mag(b[1]) * 2^(b[2] - a[2]))

Lt(a, b) == Cmp(a, b) < 0
Le(a, b) == Cmp(a, b) <= 0

\* The float of an integer, and of the quotient n / d of two integers.
Flt(n) == Rnd(n, 0, P)
FltW(n) == Rnd(n, 0, W)
Lit(n, d) == Div(FltW(n), FltW(d), P)
LitW(n, d) == Div(FltW(n), FltW(d), W)

\* The operations of the program's floats.
FMul(a, b) == Mul(a, b, P)
FAdd(a, b) == Add(a, b, P)
FSub(a, b) == Sub(a, b, P)
FDiv(a, b) == Div(a, b, P)

---------------------------------------------------------------------------
(* Library functions.                                                      *)

OneW == FltW(1)
\* ln 2 = 744261118 * 2^-30 and pi = 843314857 * 2^-28, to 30 bits.
Ln2W == Rnd(744261118, -30, W)
Pi == Rnd(843314857, -28, P)

\* ln x for x > 0, to W bits: x = z * 2^k with 3/4 <= z < 3/2, and
\* ln z = 2 * atanh(w) = 2 * w * (1 + w^2/3 + w^4/5 + w^6/7 + w^8/9) with
\* w = (z - 1) / (z + 1); w2 is w^2.
Third == LitW(1, 3)
Fifth == LitW(1, 5)
Seventh == LitW(1, 7)
Ninth == LitW(1, 9)
LnTail(w2) ==
  Add(OneW, Mul(w2, Add(Third, Mul(w2, Add(Fifth, Mul(w2,
      Add(Seventh, Mul(w2, Ninth, W), W), W), W), W), W), W), W)
LnSeries(k, w, w2) ==
  Add(Mul(FltW(k), Ln2W, W), Mul(FltW(2), Mul(w, LnTail(w2), W), W), W)
LnAtanh(k, w) == LnSeries(k, w, Mul(w, w, W))
LnReduced(k, z) == LnAtanh(k, Div(Sub(z, OneW, W), Add(z, OneW, W), W))
LnScaled(x, k0) ==
  IF Cmp(<<x[1], x[2] - k0>>, Rnd(3, -1, W)) >= 0
  THEN LnReduced(k0 + 1, <<x[1], x[2] - k0 - 1>>)
  ELSE LnReduced(k0, <<x[1], x[2] - k0>>)
LnW(x) == LnScaled(x, x[2] + BitLen(x[1]) - 1)

\* The integer nearest to q.
RoundInt(q) ==
  IF q[1] = 0 THEN 0
  ELSE IF q[2] >= 0 THEN q[1] * 2^q[2]
  ELSE IF -q[2] > 30 THEN 0
  ELSE Sign(q[1]) * ((Mag(q[1]) + 2^(-q[2] - 1)) \div 2^(-q[2]))

\* 1 + r/j * acc: one step of the Taylor series of exp r, innermost first.
ExpStep(r, j, acc) == Add(OneW, Mul(Div(r, FltW(j), W), acc, W), W)
ExpTail(r) == ExpStep(r, 5, ExpStep(r, 6, ExpStep(r, 7, ExpStep(r, 8, OneW))))
ExpSeries(r) == ExpStep(r, 1, ExpStep(r, 2, ExpStep(r, 3, ExpStep(r, 4, ExpTail(r)))))

\* exp v to W bits: v = n * ln 2 + r with |r| <= ln(2) / 2.
Scaled(acc, n) == <<acc[1], acc[2] + n>>
ExpReduced(v, n) == Scaled(ExpSeries(Sub(v, Mul(FltW(n), Ln2W, W), W)), n)
ExpW(v) == ExpReduced(v, RoundInt(Div(v, Ln2W, W)))

ToP(x) == Rnd(x[1], x[2], P)

\* np.log(x), x > 0.
log(x) == ToP(LnW(x))

\* pow(x, y) for x >= 0: exact where libm is exact.
pow(x, y) ==
  IF y[1] = 0 THEN Flt(1)
  ELSE IF x = Flt(1) \/ y = Flt(1) THEN x
  ELSE IF x[1] = 0 THEN Zero
  ELSE ToP(ExpW(Mul(y, LnW(x), W)))

\* np.sqrt(x), x >= 0.
sqrt(x) == Sqrt(x, P)

\* math.acosh(z) = ln(z + sqrt(z^2 - 1)) for z >= 1 (the caller checks the domain).
acosh(z) ==
  IF z = Flt(1) THEN Zero
  ELSE ToP(LnW(Add(z, Sqrt(Sub(Mul(z, z, W), OneW, W), W), W)))

---------------------------------------------------------------------------
(* The random generator.  np.random.uniform() reads and advances the       *)
(* global generator state and returns a float in [0, 1).  The model's      *)
(* generator has the states 0 .. Period - 1 and steps through them in      *)
(* order.  Its outputs are the values Grid[i] / 128, which include the     *)
(* endpoint 0 and the largest 7-bit float below 1; Stream is a de Bruijn   *)
(* sequence, so the three draws that follow the Period states are the      *)
(* Period different triples of these values.                               *)

Grid == <<0, 27, 64, 80, 127>>
Stream ==
  <<1, 1, 1, 2, 1, 1, 3, 1, 1, 4, 1, 1, 5, 1, 2, 2, 1, 2, 3, 1, 2, 4, 1, 2, 5,
    1, 3, 2, 1, 3, 3, 1, 3, 4, 1, 3, 5, 1, 4, 2, 1, 4, 3, 1, 4, 4, 1, 4, 5, 1,
    5, 2, 1, 5, 3, 1, 5, 4, 1, 5, 5, 2, 2, 2, 3, 2, 2, 4, 2, 2, 5, 2, 3, 3, 2,
    3, 4, 2, 3, 5, 2, 4, 3, 2, 4, 4, 2, 4, 5, 2, 5, 3, 2, 5, 4, 2, 5, 5, 3, 3,
    3, 4, 3, 3, 5, 3, 4, 4, 3, 4, 5, 3, 5, 4, 3, 5, 5, 4, 4, 4, 5, 4, 5, 5, 5>>
Period == Len(Stream)

\* np.random.uniform() in generator state g returns uniform(g) and leaves
\* the generator in state advance(g).
uniform(g) == Lit(Grid[Stream[g + 1]], 128)
\* A draw that moves the generator two states on.
advance_by_two(g) == (g + 2) % Period
advance(g) == (g + 1) % Period

---------------------------------------------------------------------------
(* hadronic_ps_gen.                                                        *)

One == Flt(1)
Two == Flt(2)
Half == Lit(1, 2)

\* tau0 = smin / smax
tau0_of(smin, smax) == FDiv(smin, smax)
\* The fractions the wrong way round: y / tau.
x2_inverted(tau, y) == FDiv(y, tau)
\* The division by y forgotten.
x2_undivided(tau, y) == tau
\* x2 = tau / y
x2_of(tau, y) == FDiv(tau, y)
\* One factor np.log(tau0) forgotten.
jacobian_one_log(tau, tau0, r1) == FMul(FMul(tau, log(tau0)), r1)
\* jacobian = tau * np.log(tau0) * np.log(tau0) * r1
jacobian_of(tau, tau0, r1) == FMul(FMul(FMul(tau, log(tau0)), log(tau0)), r1)
\* cos_theta = 2.0 * r3 - 1.0
cos_theta_of(r3) == FSub(FMul(Two, r3), One)
\* The factor 0.5 forgotten.
t_unhalved(s, cos_theta) == FMul(Neg(s), FSub(One, cos_theta))
\* t = -0.5 * s * (1.0 - cos_theta)
t_of(s, cos_theta) == FMul(FMul(Neg(Half), s), FSub(One, cos_theta))
\* The line of t copied for u without changing the sign of cos_theta.
u_copied(s, cos_theta) == FMul(FMul(Neg(Half), s), FSub(One, cos_theta))
\* u = -0.5 * s * (1.0 + cos_theta)
u_of(s, cos_theta) == FMul(FMul(Neg(Half), s), FAdd(One, cos_theta))

\* What a call that raises leaves behind: the exception and the generator state.
Raise(e, g) ==
  [err |-> e, rng |-> g, r1 |-> Zero, r2 |-> Zero, r3 |-> Zero, tau0 |-> Zero,
   tau |-> Zero, s |-> Zero, t |-> Zero, u |-> Zero, x1 |-> Zero, x2 |-> Zero, jacobian |-> Zero]

\* The body of hadronic_ps_gen in the order of its lines; each step hands
\* the values computed so far to the next.  The last builds the returned
\* list [s, t, u, x1, x2, jacobian], kept with the draws, tau0, tau and the
\* generator state g the call leaves: jacobian is multiplied by 2.0 for the
\* theta integration and by 2.0 * math.pi for the phi integration.
ps_return(tau0, tau, y, s, cos_theta, r1, r2, r3, g) ==
  [err |-> "none", rng |-> g, r1 |-> r1, r2 |-> r2, r3 |-> r3, tau0 |-> tau0,
   tau |-> tau, s |-> s, t |-> t_of(s, cos_theta), u |-> u_of(s, cos_theta),
   x1 |-> y, x2 |-> x2_of(tau, y),
   jacobian |-> FMul(FMul(jacobian_of(tau, tau0, r1), Two), FMul(Two, Pi))]
\* y = pow(tau, 1.0 - r2); s = tau * smax
ps_fractions(smax, tau0, tau, r1, r2, r3, g) ==
  ps_return(tau0, tau, pow(tau, FSub(One, r2)), FMul(tau, smax), cos_theta_of(r3),
            r1, r2, r3, g)
\* tau = pow(tau0, r1)
ps_tau(smax, tau0, r1, r2, r3, g) ==
  ps_fractions(smax, tau0, pow(tau0, r1), r1, r2, r3, g)
\* r1, r2, r3 = np.random.uniform(); then tau0 = smin / smax, which raises
\* ZeroDivisionError when smax is 0.0.
ps_draws(smin, smax, g) ==
  IF smax[1] = 0 THEN Raise("ZeroDivisionError", advance(advance(advance(g))))
  ELSE ps_tau(smax, tau0_of(smin, smax), uniform(g), uniform(advance(g)),
              uniform(advance(advance(g))), advance(advance(advance(g))))

\* hadronic_ps_gen(mmin, mmax) called in generator state g.  It checks
\* nothing about mmin and mmax; the three draws come before the first use
\* of either.
hadronic_ps_gen(mmin, mmax, g) == ps_draws(FMul(mmin, mmin), FMul(mmax, mmax), g)

---------------------------------------------------------------------------
(* photon_photon_matrix_element.  The notebook leaves the returned         *)
(* expression to the reader and gives the formula in its text:             *)
(* alpha^2 / (2 s) * (t / u + u / t).                                      *)

\* The inverse forgotten: alpha0 = 137.03599911.
alpha0_not_inverted == Rnd(1149541279, -23, P)
\* alpha0 = 1.0 / 137.03599911 (the literal to 31 bits: 1149541279 * 2^-23)
alpha0 == FDiv(One, Rnd(1149541279, -23, P))

photon_photon_matrix_element(s, t, u) ==
  FMul(FDiv(FMul(alpha0, alpha0), FMul(Two, s)), FAdd(FDiv(t, u), FDiv(u, t)))

---------------------------------------------------------------------------
(* fill_grid: the observables of a phase-space point.                      *)

\* The float inf: what 0.5 * mll / ptl is when ptl is 0.0 (numpy divides
\* without raising), and what math.acosh and np.abs make of it.
Inf == <<0, 1>>
\* a < b for floats a and b one of which may be inf.
FLt(a, b) == IF a = Inf THEN FALSE ELSE IF b = Inf THEN TRUE ELSE Lt(a, b)

\* The pair rapidity yll forgotten: the rapidities in the frame of the pair.
lepton_rapidities_pair_frame(ptl, mll, yll, ach) ==
  [err |-> "none", ptl |-> ptl, mll |-> mll, yll |-> yll,
   ylp |-> IF ach = Inf THEN Inf ELSE Abs(ach),
   ylm |-> IF ach = Inf THEN Inf ELSE Abs(ach)]
\* np.abs(yll + ach) and np.abs(yll - ach) with ach = math.acosh(arg).
lepton_rapidities(ptl, mll, yll, ach) ==
  [err |-> "none", ptl |-> ptl, mll |-> mll, yll |-> yll,
   ylp |-> IF ach = Inf THEN Inf ELSE Abs(FAdd(yll, ach)),
   ylm |-> IF ach = Inf THEN Inf ELSE Abs(FSub(yll, ach))]
\* math.acosh(arg) raises ValueError for arg below 1.
obs_acosh(ptl, mll, yll, arg) ==
  IF arg # Inf /\ Lt(arg, One)
  THEN [err |-> "ValueError", ptl |-> ptl, mll |-> mll, yll |-> yll,
        ylp |-> Zero, ylm |-> Zero]
  ELSE lepton_rapidities(ptl, mll, yll, IF arg = Inf THEN Inf ELSE acosh(arg))
\* 0.5 * mll / ptl
obs_arg(ptl, mll, yll) ==
  obs_acosh(ptl, mll, yll, IF ptl[1] = 0 THEN Inf ELSE FDiv(FMul(Half, mll), ptl))

\* The observables built from the point pt, or the ValueError of math.acosh:
\* ptl = np.sqrt(t * u / s), mll = np.sqrt(s), yll = 0.5 * np.log(x1 / x2).
observables(pt) ==
  obs_arg(sqrt(FDiv(FMul(pt.t, pt.u), pt.s)), sqrt(pt.s),
          FMul(Half, log(FDiv(pt.x1, pt.x2))))

\* The condition of the if whose body is continue.  The notebook leaves it to
\* the reader and lists the cuts in its text: pT > 14, |y| < 2.4 for both
\* leptons, 60 < M < 120.  The event is cut away unless it passes them all.
cut_away(ptl, mll, ylp, ylm) ==
  ~(/\ FLt(Flt(14), ptl)
    /\ FLt(ylp, Lit(24, 10))
    /\ FLt(ylm, Lit(24, 10))
    /\ FLt(Flt(60), mll)
    /\ FLt(mll, Flt(120)))

\* hbarc2 = 389379372.1 (the literal to 29 bits)
hbarc2 == Rnd(389379372, 0, P)
\* jacobian *= hbarc2 / calls
converted(jacobian, n) == FMul(jacobian, FDiv(hbarc2, Flt(n)))
\* The arguments rotated: photon_photon_matrix_element(u, t, s).
weight_rotated(jacobian, s, t, u) == FMul(jacobian, photon_photon_matrix_element(u, t, s))
\* weight = jacobian * photon_photon_matrix_element(s, u, t)
weight_of(jacobian, s, t, u) == FMul(jacobian, photon_photon_matrix_element(s, u, t))
\* q2 = 90.0 * 90.0
q2 == FMul(Flt(90), Flt(90))

---------------------------------------------------------------------------
(* generate_grid: the bins, and grid.fill.                                 *)

\* np.arange(start, stop, step) for multiples of 0.1, given in tenths:
\* ceil((stop - start) / step) values start + i * step.  (In the program's
\* floats 2.4 / 0.1 is 23.999999999999996, so the count is 24 there too.)
arange(start, stop, step) ==
  [i \in 1..((stop - start + step - 1) \div step) |-> Lit(start + (i - 1) * step, 10)]

\* bins = np.arange(0, 2.4, 0.1): the limits of the bins.
bins == arange(0, 24, 1)
\* Grid.create makes one bin between each limit and the next.
NBins == Len(bins) - 1

\* The bin whose limits contain the observable ob, or 0 when none does.
bin_of(ob) ==
  IF \E b \in 1..NBins : Le(bins[b], ob) /\ Lt(ob, bins[b + 1])
  THEN CHOOSE b \in 1..NBins : Le(bins[b], ob) /\ Lt(ob, bins[b + 1])
  ELSE 0

\* grid.fill(x1, x2, q2, 0, observable, 0, weight): the weight is added to
\* the bin of the observable; an observable outside the limits is dropped.
fill(h, ob, weight) ==
  IF bin_of(ob) = 0 THEN h
  ELSE [h EXCEPT ![bin_of(ob)] = FAdd(h[bin_of(ob)], weight)]

\* A grid kept from one call of generate_grid to the next.
Grid_reused(limits) ==
  IF Len(grid) = Len(limits) - 1 THEN grid ELSE [b \in 1..(Len(limits) - 1) |-> Zero]
\* Grid.create(lumi_entries, orders, bins, params): a new, empty grid.
Grid_create(limits) == [b \in 1..(Len(limits) - 1) |-> Zero]

---------------------------------------------------------------------------
(* fill_grid: one iteration of the loop.                                   *)

\* The loop body after the observables ob of the point pt, with the
\* converted jacobian, on the histogram h: what it did (kind), the
\* histogram it leaves, and the trial's quantities.
trial_fill(h, pt, ob, jacobian, weight) ==
  [kind |-> "filled", err |-> "none", grid |-> fill(h, Abs(ob.yll), weight),
   pt |-> pt, ob |-> ob, jacobian |-> jacobian, weight |-> weight,
   bin |-> bin_of(Abs(ob.yll))]
\* weight = jacobian * photon_photon_matrix_element(s, u, t): t and u are
\* Python floats, so t / u and u / t raise ZeroDivisionError for a zero
\* divisor; the exception ends fill_grid.
trial_weight(h, pt, ob, jacobian) ==
  IF pt.t[1] = 0 \/ pt.u[1] = 0
  THEN [kind |-> "raised", err |-> "ZeroDivisionError", grid |-> h, pt |-> pt,
        ob |-> ob, jacobian |-> jacobian, weight |-> Zero, bin |-> 0]
  ELSE trial_fill(h, pt, ob, jacobian, weight_of(jacobian, pt.s, pt.t, pt.u))
\* Only the cut on the transverse momentum written; the others forgotten.
trial_pt_cut_only(h, pt, ob, jacobian) ==
  IF ~FLt(Flt(14), ob.ptl)
  THEN [kind |-> "cut", err |-> "none", grid |-> h, pt |-> pt, ob |-> ob,
        jacobian |-> jacobian, weight |-> Zero, bin |-> 0]
  ELSE trial_weight(h, pt, ob, jacobian)
\* Only the cuts on the invariant mass written.
trial_mass_cut_only(h, pt, ob, jacobian) ==
  IF ~(FLt(Flt(60), ob.mll) /\ FLt(ob.mll, Flt(120)))
  THEN [kind |-> "cut", err |-> "none", grid |-> h, pt |-> pt, ob |-> ob,
        jacobian |-> jacobian, weight |-> Zero, bin |-> 0]
  ELSE trial_weight(h, pt, ob, jacobian)
\* No cut written and the invariants made numpy floats, whose division by
\* 0.0 gives inf and raises nothing.
trial_uncut_numpy(h, pt, ob, jacobian) ==
  trial_fill(h, pt, ob, jacobian,
             IF pt.t[1] = 0 \/ pt.u[1] = 0 THEN Inf
             ELSE weight_of(jacobian, pt.s, pt.t, pt.u))
trial_cuts(h, pt, ob, jacobian) ==
  IF cut_away(ob.ptl, ob.mll, ob.ylp, ob.ylm)
  THEN [kind |-> "cut", err |-> "none", grid |-> h, pt |-> pt, ob |-> ob,
        jacobian |-> jacobian, weight |-> Zero, bin |-> 0]
  ELSE trial_weight(h, pt, ob, jacobian)
trial_observed(h, pt, ob, n) ==
  IF ob.err # "none"
  THEN [kind |-> "raised", err |-> ob.err, grid |-> h, pt |-> pt, ob |-> ob,
        jacobian |-> pt.jacobian, weight |-> Zero, bin |-> 0]
  ELSE trial_cuts(h, pt, ob, converted(pt.jacobian, n))
trial_point(h, pt, n) == trial_observed(h, pt, observables(pt), n)
\* The loop body run in generator state g on the histogram h, calls being n.
trial(h, g, n) == trial_point(h, hadronic_ps_gen(Flt(10), Flt(7000), g), n)

NoPoint == Raise("nocall", 0)
NoEvent ==
  [kind |-> "none", err |-> "none", grid |-> <<>>, pt |-> NoPoint,
   ob |-> [err |-> "none", ptl |-> Zero, mll |-> Zero, yll |-> Zero,
           ylp |-> Zero, ylm |-> Zero],
   jacobian |-> Zero, weight |-> Zero, bin |-> 0]
NoRun == [runs |-> 0, start |-> 0, calls |-> 0, fills |-> <<>>, grid |-> <<>>, pc |-> "idle"]
NoME ==
  [called |-> FALSE, s |-> Zero, t |-> Zero, u |-> Zero, value |-> Zero, weight |-> Zero]
NoShares ==
  [phase |-> "none", n |-> <<0, 0, 0>>, it |-> <<0, 0, 0>>, g |-> <<0, 0, 0>>,
   err |-> <<"none", "none", "none">>, hist |-> <<<<>>, <<>>, <<>>>>, sum |-> <<>>]

NoCircuit ==
  [pc |-> "idle", n |-> 0, guilty_index |-> 0, nsteps |-> 0, step |-> 0,
   c |-> <<>>, inp |-> <<>>, out |-> <<>>]
NoReadout ==
  [pc |-> "idle", nshots |-> 0, tally |-> <<>>, frequencies |-> <<>>,
   probabilities |-> <<>>, index |-> 0]
NoKoch ==
  [pc |-> "idle", i |-> 0, start_points |-> <<>>, all_points |-> <<>>,
   new_points |-> <<>>, old |-> 0, plotted |-> 0]

---------------------------------------------------------------------------
(* The program: generate_grid and the loop of fill_grid.                   *)

Init ==
  /\ rng \in 0..(Period - 1)
  /\ rng0 = rng
  /\ pc = "idle"
  /\ cfg = <<0, 0>>
  /\ point = NoPoint
  /\ calls = 0
  /\ iter = 0
  /\ grid = <<>>
  /\ ev = NoEvent
  /\ fills = <<>>
  /\ prev = NoRun
  /\ me = NoME
  /\ shares = NoShares
  /\ koch = NoKoch
  /\ qc = NoCircuit
  /\ readout = NoReadout

\* grid = generate_grid(n), up to the loop of fill_grid: a new grid is
\* created whatever n is.  The run before it, if any, is remembered in prev.
generate_grid(n) ==
  /\ pc = "idle" \/ (pc \in {"done", "raised"} /\ prev.runs = 0)
  /\ point = NoPoint
  /\ prev' = IF pc = "idle" THEN prev
             ELSE [runs |-> prev.runs + 1, start |-> rng0, calls |-> calls,
                   fills |-> fills, grid |-> grid, pc |-> pc]
  /\ calls' = n
  /\ iter' = 0
  /\ grid' = Grid_create(bins)
  /\ fills' = <<>>
  /\ ev' = NoEvent
  /\ rng0' = rng
  /\ pc' = "fill"
  /\ UNCHANGED <<rng, cfg, point, me, shares, koch, qc, readout>>

\* for _ in range(calls): one iteration.  The exception of math.acosh ends
\* fill_grid and generate_grid.
FillIteration ==
  /\ pc = "fill"
  /\ iter < calls
  /\ ev' = trial(grid, rng, calls)
  /\ grid' = ev'.grid
  /\ rng' = ev'.pt.rng
  /\ pc' = IF ev'.kind = "raised" THEN "raised" ELSE "fill"
  /\ iter' = IF ev'.kind = "raised" THEN iter ELSE iter + 1
  /\ fills' = IF ev'.kind = "filled"
              THEN Append(fills, <<ev'.pt.x1, ev'.pt.x2, q2, Abs(ev'.ob.yll), ev'.weight>>)
              ELSE fills
  /\ UNCHANGED <<rng0, cfg, point, calls, prev, me, shares, koch, qc, readout>>

\* range(calls) is exhausted (at once when calls <= 0): generate_grid returns.
FillReturn ==
  /\ pc = "fill"
  /\ ~(iter < calls)
  /\ pc' = "done"
  /\ UNCHANGED <<rng, rng0, cfg, point, calls, iter, grid, ev, fills, prev,
                 me, shares, koch, qc, readout>>

\* Between two runs the generator is put back into the state the run before
\* started from (np.random.seed with the same seed).
Seed ==
  /\ pc \in {"done", "raised"}
  /\ point = NoPoint
  /\ rng # rng0
  /\ rng' = rng0
  /\ UNCHANGED <<rng0, pc, cfg, point, calls, iter, grid, ev, fills, prev,
                 me, shares, koch, qc, readout>>

Next ==
  \/ \E n \in (-1)..MaxCalls : generate_grid(n)
  \/ FillIteration
  \/ FillReturn
  \/ Seed

Spec == Init /\ [][Next]_vars

---------------------------------------------------------------------------
(* hadronic_ps_gen called on its own, as the notebook's test cell does.    *)

\* The arguments tried: five with 0 < mmin < mmax and four without.
Configs ==
  {<<10, 7000>>, <<60, 120>>, <<7, 11>>, <<7, 9>>, <<1, 2>>,
   <<7000, 10>>, <<10, 10>>, <<10, 0>>, <<-10, 7000>>}

PsGen(c) ==
  /\ pc = "idle"
  /\ point' = hadronic_ps_gen(Flt(c[1]), Flt(c[2]), rng)
  /\ rng' = point'.rng
  /\ pc' = IF point'.err = "none" THEN "done" ELSE "raised"
  /\ cfg' = c
  /\ rng0' = rng
  /\ UNCHANGED <<calls, iter, grid, ev, fills, prev, me, shares, koch, qc,
                 readout>>

NextPS == \E c \in Configs : PsGen(c)

SpecPS == Init /\ [][NextPS]_vars

---------------------------------------------------------------------------
(* photon_photon_matrix_element called on its own.                         *)

\* The arguments tried: s > 0 and t, u < 0 from 1/8 to 7000^2.
SValues == {Lit(1, 4), Flt(1), Flt(100), Flt(8100), FMul(Flt(7000), Flt(7000))}
TValues == {Neg(Lit(1, 8)), Neg(Flt(1)), Neg(Flt(40)), Neg(Flt(60)), Neg(Flt(5000))}

MatrixElement(s, t, u) ==
  /\ pc = "idle"
  /\ ~me.called
  /\ me' = [called |-> TRUE, s |-> s, t |-> t, u |-> u,
            value |-> photon_photon_matrix_element(s, t, u),
            weight |-> weight_of(One, s, t, u)]
  /\ UNCHANGED <<rng, rng0, pc, cfg, point, calls, iter, grid, ev, fills,
                 prev, shares, koch, qc, readout>>

NextME == \E s \in SValues, t \in TValues, u \in TValues : MatrixElement(s, t, u)

SpecME == Init /\ [][NextME]_vars

---------------------------------------------------------------------------
(* The trials shared among workers.  Two workers each run fill_grid on a   *)
(* private histogram with their share of the trials as calls; a third run  *)
(* of fill_grid does all the trials into a single histogram.  Worker 1     *)
(* gets the draws of the first trials and worker 2 those of the rest.      *)

\* The two workers, and the run that does all the trials.
Workers == 1..2
Sequential == 3

\* The trials are shared: a trials for worker 1 and b for worker 2, drawn
\* from generator state g on.
Split(a, b) ==
  /\ pc = "idle"
  /\ shares.phase = "none"
  /\ shares' = [phase |-> "running", n |-> <<a, b, a + b>>, it |-> <<0, 0, 0>>,
                g |-> <<rng, (rng + 3 * a) % Period, rng>>,
                err |-> <<"none", "none", "none">>,
                hist |-> <<Grid_create(bins), Grid_create(bins), Grid_create(bins)>>,
                sum |-> <<>>]
  /\ UNCHANGED <<rng, rng0, pc, cfg, point, calls, iter, grid, ev, fills,
                 prev, me, koch, qc, readout>>

\* The run j of fill_grid after the iteration whose outcome is o.
iterated(c, j, o) ==
  [c EXCEPT !.it[j] = IF o.kind = "raised" THEN @ ELSE @ + 1,
            !.g[j] = o.pt.rng,
            !.err[j] = o.err,
            !.hist[j] = o.grid]

\* The run j has ended: its loop is exhausted or an exception ended it.
ended(c, j) == c.err[j] # "none" \/ c.it[j] = c.n[j]

\* One iteration of the loop of fill_grid in the run j, on its histogram d
\* in its generator state q, its calls being its number of trials a.  The
\* workers run in any order; the run of all the trials follows them.
WorkerIteration(j) ==
  /\ shares.phase = "running"
  /\ shares.err[j] = "none"
  /\ shares.it[j] < shares.n[j]
  /\ j = Sequential => \A i \in Workers : ended(shares, i)
  /\ \E d \in {shares.hist[j]}, q \in {shares.g[j]}, a \in {shares.n[j]} :
       ev' = trial(d, q, a)
  /\ shares' = iterated(shares, j, ev')
  /\ UNCHANGED <<rng, rng0, pc, cfg, point, calls, iter, grid, fills, prev,
                 me, koch, qc, readout>>

\* The private histograms are summed, bin by bin, after all runs ended.
Join ==
  /\ shares.phase = "running"
  /\ \A j \in 1..Sequential : ended(shares, j)
  /\ shares' = [shares EXCEPT !.phase = "joined",
                              !.sum = [b \in 1..NBins |->
                                         FAdd(shares.hist[1][b], shares.hist[2][b])]]
  /\ UNCHANGED <<rng, rng0, pc, cfg, point, calls, iter, grid, ev, fills,
                 prev, me, koch, qc, readout>>

NextW ==
  \/ \E a \in 1..MaxCalls, b \in 1..MaxCalls : Split(a, b)
  \/ \E j \in 1..Sequential : WorkerIteration(j)
  \/ Join

SpecW == Init /\ [][NextW]_vars

---------------------------------------------------------------------------
(* The Koch curve of the PDF notebook.  A point is <<a, b, e>>: the point  *)
(* (a * e1 + b * e2) / 3^e of the plane, with e1 = (1, 0) and              *)
(* e2 = (cos(pi/3), sin(pi/3)).  Every point of the curve is of this form, *)
(* a rotation by 60 degrees maps e1 to e2 and e2 to e2 - e1, and a         *)
(* division by r = 3 adds 1 to e.  A segment is an array of two points.    *)

\* iterations = 4
iterations == 4
\* The largest length L of the first segment tried.
MaxL == 2

\* The state the notebooks' cells are run from.
InitNotebook == Init /\ rng = 0

\* rotation(angle, x, r) for the angle np.pi / 3 (turn = 1) or -np.pi / 3
\* (turn = -1) and r = 3: every point of x rotated and divided by r.
rotation(turn, x) ==
  [m \in 1..Len(x) |->
     IF turn = 1 THEN <<-x[m][2], x[m][1] + x[m][2], x[m][3] + 1>>
     ELSE <<x[m][1] + x[m][2], -x[m][1], x[m][3] + 1>>]
\* x / r for r = 3
scaled(x) == [m \in 1..Len(x) |-> <<x[m][1], x[m][2], x[m][3] + 1>>]
\* x + [a / 3, b / 3] in the basis e1, e2, for points x already divided by r.
shifted(x, a, b) ==
  [m \in 1..Len(x) |->
     <<x[m][1] + a * 3^(x[m][3] - 1), x[m][2] + b * 3^(x[m][3] - 1), x[m][3]>>]

\* The last of the four segments forgotten.
koch_curve_three(x) ==
  <<scaled(x), shifted(rotation(1, x), 1, 0), shifted(rotation(-1, x), 1, 1)>>
\* koch_curve(x): [X1, X2, X3, X4].  The shifts are [1 / r, 0],
\* [cos(pi/3), sin(pi/3) / r] = (e1 + e2) / 3 and [2 / r, 0].
koch_curve(x) ==
  <<scaled(x), shifted(rotation(1, x), 1, 0), shifted(rotation(-1, x), 1, 1),
    shifted(scaled(x), 2, 0)>>

\* L, start_points = np.array([[0, 0], [L, 0]]); the loop over i begins.
KochCell(len) ==
  /\ koch.pc = "idle"
  /\ koch' = [NoKoch EXCEPT !.pc = "loop",
                            !.start_points = <<<<0, 0, 0>>, <<len, 0, 0>>>>]
  /\ UNCHANGED <<rng, rng0, pc, cfg, point, calls, iter, grid, ev, fills, prev,
                 me, shares, qc, readout>>

\* if i == 0: all_points = [start_points]
KochFirst ==
  /\ koch.pc = "loop"
  /\ koch.i = 0
  /\ koch' = [koch EXCEPT !.all_points = <<koch.start_points>>, !.pc = "plot"]
  /\ UNCHANGED <<rng, rng0, pc, cfg, point, calls, iter, grid, ev, fills, prev,
                 me, shares, qc, readout>>

\* else: new_points = []
KochNew ==
  /\ koch.pc = "loop"
  /\ koch.i # 0
  /\ koch' = [koch EXCEPT !.new_points = <<>>, !.old = 1, !.pc = "extend"]
  /\ UNCHANGED <<rng, rng0, pc, cfg, point, calls, iter, grid, ev, fills, prev,
                 me, shares, qc, readout>>

\* for old_point in all_points: new_points.extend(koch_curve(old_point))
KochExtend ==
  /\ koch.pc = "extend"
  /\ koch.old <= Len(koch.all_points)
  /\ koch' = [koch EXCEPT !.new_points = @ \o koch_curve(koch.all_points[koch.old]),
                          !.old = @ + 1]
  /\ UNCHANGED <<rng, rng0, pc, cfg, point, calls, iter, grid, ev, fills, prev,
                 me, shares, qc, readout>>

\* all_points = new_points
KochUpdate ==
  /\ koch.pc = "extend"
  /\ koch.old > Len(koch.all_points)
  /\ koch' = [koch EXCEPT !.all_points = koch.new_points, !.pc = "plot"]
  /\ UNCHANGED <<rng, rng0, pc, cfg, point, calls, iter, grid, ev, fills, prev,
                 me, shares, qc, readout>>

\* for pts in all_points: ax.plot(pts[:, 0], pts[:, 1]); then the next i of
\* range(0, iterations + 1), if any.
KochPlot ==
  /\ koch.pc = "plot"
  /\ koch' = [koch EXCEPT !.plotted = Len(koch.all_points),
                          !.i = IF koch.i < iterations THEN @ + 1 ELSE @,
                          !.pc = IF koch.i < iterations THEN "loop" ELSE "done"]
  /\ UNCHANGED <<rng, rng0, pc, cfg, point, calls, iter, grid, ev, fills, prev,
                 me, shares, qc, readout>>

NextKoch ==
  \/ \E len \in 1..MaxL : KochCell(len)
  \/ KochFirst
  \/ KochNew
  \/ KochExtend
  \/ KochUpdate
  \/ KochPlot

SpecKoch == InitNotebook /\ [][NextKoch]_vars

---------------------------------------------------------------------------
(* The circuits of the Grover notebook.  A circuit is the sequence of its  *)
(* gates; a gate has a name, the qubit q it acts on and the set of qubits  *)
(* that control it.  Qubits are numbered from 0, qubit n is the ancilla.   *)

\* The largest number n of register qubits tried.
MaxQubits == 3
\* The largest number nsteps of Grover iterations tried.
MaxSteps == 2

Gate(name, q, controls) == [name |-> name, q |-> q, controls |-> controls]

\* format(i, f"0{n}b"): the n binary digits of i, the highest first.
format_bits(i, n) ==
  [m \in 1..n |-> IF (i \div 2^(n - m)) % 2 = 1 THEN "1" ELSE "0"]
\* bitstrings = [format(i, f"0{n}b") for i in range(2**n)]; bitstrings[i] of
\* the program is bitstrings(n)[i + 1].
bitstrings(n) == [i \in 1..(2^n) |-> format_bits(i - 1, n)]

\* build_initial_layer(n): X on the ancilla, then H on each of the n + 1
\* qubits.
build_initial_layer(n) ==
  <<Gate("X", n, {})>> \o [m \in 1..(n + 1) |-> Gate("H", m - 1, {})]

\* The positions of the unset bits among the first m of bitstring, in
\* increasing order: zeros after m passes of the loop over enumerate.
RECURSIVE zeros_upto(_, _)
zeros_upto(bitstring, m) ==
  IF m = 0 THEN <<>>
  ELSE IF bitstring[m] = "0" THEN Append(zeros_upto(bitstring, m - 1), m - 1)
  ELSE zeros_upto(bitstring, m - 1)
\* gates.X(q) for q in zeros
flips(zeros) == [m \in 1..Len(zeros) |-> Gate("X", zeros[m], {})]
\* The X gates on the zero positions not undone.
oracle_not_undone(zeros, n) == flips(zeros) \o <<Gate("X", n, 0..(n - 1))>>
\* The three circuit.add of build_oracle, zeros being built.
oracle_gates(zeros, n) ==
  flips(zeros) \o <<Gate("X", n, 0..(n - 1))>> \o flips(zeros)
\* build_oracle(guilty_index, n)
build_oracle(guilty_index, n) ==
  oracle_gates(zeros_upto(bitstrings(n)[guilty_index + 1], n), n)

\* H and X on the ancilla as well: range(n + 1) for range(n).
build_diffusion_operator_all(n) ==
  [m \in 1..(n + 1) |-> Gate("H", m - 1, {})] \o
  [m \in 1..(n + 1) |-> Gate("X", m - 1, {})] \o
  <<Gate("Z", 0, 1..(n - 1))>> \o
  [m \in 1..(n + 1) |-> Gate("X", m - 1, {})] \o
  [m \in 1..(n + 1) |-> Gate("H", m - 1, {})]
\* build_diffusion_operator(n)
build_diffusion_operator(n) ==
  [m \in 1..n |-> Gate("H", m - 1, {})] \o
  [m \in 1..n |-> Gate("X", m - 1, {})] \o
  <<Gate("Z", 0, 1..(n - 1))>> \o
  [m \in 1..n |-> Gate("X", m - 1, {})] \o
  [m \in 1..n |-> Gate("H", m - 1, {})]

\* The diffusion operator before the oracle.
grover_iteration_swapped(c, guilty_index, n) ==
  c \o build_diffusion_operator(n) \o build_oracle(guilty_index, n)
\* c += build_oracle(guilty_index, n); c += build_diffusion_operator(n)
grover_iteration(c, guilty_index, n) ==
  c \o build_oracle(guilty_index, n) \o build_diffusion_operator(n)

\* The basis state with the register bits of x (qubit 0 the highest) and
\* the ancilla bit a, as the sequence of the bits of qubits 0..n.
basis(x, a, n) ==
  [m \in 1..(n + 1) |-> IF m = n + 1 THEN a ELSE (x \div 2^(n - m)) % 2]
\* A gate X, controlled or not, acting on the basis state b: the bit of its
\* qubit is flipped when all its controls are 1.
flipped(b, gate) ==
  IF \A j \in gate.controls : b[j + 1] = 1
  THEN [b EXCEPT ![gate.q + 1] = 1 - @]
  ELSE b
\* A circuit of X gates executed on the basis state b: the first m gates.
RECURSIVE executed(_, _, _)
executed(c, b, m) ==
  IF m = 0 THEN b ELSE flipped(executed(c, b, m - 1), c[m])

\* build_oracle(guilty_index, n) is built and executed on |x>|a>.
Oracle(n, guilty_index, x, a) ==
  /\ qc.pc = "idle"
  /\ qc' = [NoCircuit EXCEPT !.pc = "oracle", !.n = n, !.guilty_index = guilty_index,
                             !.c = build_oracle(guilty_index, n),
                             !.inp = basis(x, a, n),
                             !.out = executed(build_oracle(guilty_index, n),
                                              basis(x, a, n),
                                              Len(build_oracle(guilty_index, n)))]
  /\ UNCHANGED <<rng, rng0, pc, cfg, point, calls, iter, grid, ev, fills, prev,
                 me, shares, koch, readout>>

\* build_diffusion_operator(n) is built.
Diffusion(n) ==
  /\ qc.pc = "idle"
  /\ qc' = [NoCircuit EXCEPT !.pc = "diffuser", !.n = n,
                             !.c = build_diffusion_operator(n)]
  /\ UNCHANGED <<rng, rng0, pc, cfg, point, calls, iter, grid, ev, fills, prev,
                 me, shares, koch, readout>>

\* build_grover(n, nsteps) with the global guilty_index, up to its loop:
\* c = Circuit(n + 1); c += build_initial_layer(n)
build_grover(n, nsteps, guilty_index) ==
  /\ qc.pc = "idle"
  /\ qc' = [NoCircuit EXCEPT !.pc = "loop", !.n = n, !.nsteps = nsteps,
                             !.guilty_index = guilty_index,
                             !.c = build_initial_layer(n)]
  /\ UNCHANGED <<rng, rng0, pc, cfg, point, calls, iter, grid, ev, fills, prev,
                 me, shares, koch, readout>>

\* for _ in range(nsteps): one pass of the loop.
GroverIteration ==
  /\ qc.pc = "loop"
  /\ qc.step < qc.nsteps
  /\ qc' = [qc EXCEPT !.c = grover_iteration(qc.c, qc.guilty_index, qc.n),
                      !.step = @ + 1]
  /\ UNCHANGED <<rng, rng0, pc, cfg, point, calls, iter, grid, ev, fills, prev,
                 me, shares, koch, readout>>

\* c.add(gates.M(i) for i in range(n)); return c
GroverMeasure ==
  /\ qc.pc = "loop"
  /\ ~(qc.step < qc.nsteps)
  /\ qc' = [qc EXCEPT !.c = @ \o [m \in 1..qc.n |-> Gate("M", m - 1, {})],
                      !.pc = "built"]
  /\ UNCHANGED <<rng, rng0, pc, cfg, point, calls, iter, grid, ev, fills, prev,
                 me, shares, koch, readout>>

NextGrover ==
  \/ \E n \in 2..MaxQubits :
       \E guilty_index \in 0..(2^n - 1), x \in 0..(2^n - 1), a \in 0..1 :
         Oracle(n, guilty_index, x, a)
  \/ \E n \in 2..MaxQubits : Diffusion(n)
  \/ \E n \in 2..MaxQubits, nsteps \in 0..MaxSteps :
       \E guilty_index \in 0..(2^n - 1) : build_grover(n, nsteps, guilty_index)
  \/ GroverIteration
  \/ GroverMeasure

SpecGrover == InitNotebook /\ [][NextGrover]_vars

---------------------------------------------------------------------------
(* The readout cell of the Grover notebook.  The circuit is executed       *)
(* nshots times; frequencies() gives a Counter with an entry for each      *)
(* bitstring measured at least once, in increasing order of the            *)
(* bitstrings.  An entry is <<bitstring, count>>.                          *)

\* The number of register qubits measured.
ReadoutQubits == 2
\* The largest number of shots tried.
MaxShots == 5

\* The sum of the first m entries of the tally.
RECURSIVE shots_upto(_, _)
shots_upto(tally, m) == IF m = 0 THEN 0 ELSE shots_upto(tally, m - 1) + tally[m]

\* The Counter of a tally of the 2^n bitstrings: the entries of the
\* bitstrings measured, among the first m.
RECURSIVE Counter(_, _, _)
Counter(tally, n, m) ==
  IF m = 0 THEN <<>>
  ELSE IF tally[m] = 0 THEN Counter(tally, n, m - 1)
  ELSE Append(Counter(tally, n, m - 1), <<bitstrings(n)[m], tally[m]>>)

\* for bitstring in frequencies:
\*     probabilities.append(frequencies[bitstring] / 1000)
\* with the number of shots for the 1000.
probabilities_of(frequencies, nshots) ==
  [m \in 1..Len(frequencies) |-> FDiv(Flt(frequencies[m][2]), Flt(nshots))]

\* np.argmax(values): the position, counted from 0, of the first largest.
argmax(values) ==
  (CHOOSE m \in 1..Len(values) :
     /\ \A j \in 1..Len(values) : Le(values[j], values[m])
     /\ \A j \in 1..(m - 1) : Lt(values[j], values[m])) - 1

\* frequencies = c(nshots=...).frequencies(): the shots fall as in tally.
Measure(nshots, tally) ==
  /\ readout.pc = "idle"
  /\ shots_upto(tally, Len(tally)) = nshots
  /\ readout' = [NoReadout EXCEPT !.pc = "measured", !.nshots = nshots,
                                  !.tally = tally,
                                  !.frequencies = Counter(tally, ReadoutQubits, Len(tally))]
  /\ UNCHANGED <<rng, rng0, pc, cfg, point, calls, iter, grid, ev, fills, prev,
                 me, shares, koch, qc>>

\* probabilities is built, index = np.argmax(probabilities), and the
\* message names bitstrings[index] and names[index].
Report ==
  /\ readout.pc = "measured"
  /\ readout' = [readout EXCEPT
                   !.pc = "reported",
                   !.probabilities = probabilities_of(readout.frequencies, readout.nshots),
                   !.index = argmax(probabilities_of(readout.frequencies, readout.nshots))]
  /\ UNCHANGED <<rng, rng0, pc, cfg, point, calls, iter, grid, ev, fills, prev,
                 me, shares, koch, qc>>

NextReadout ==
  \/ \E nshots \in 1..MaxShots :
       \E tally \in [1..(2^ReadoutQubits) -> 0..nshots] : Measure(nshots, tally)
  \/ Report

SpecReadout == InitNotebook /\ [][NextReadout]_vars

---------------------------------------------------------------------------
(* Properties of hadronic_ps_gen (under SpecPS).                           *)

\* The arguments satisfy 0 < mmin < mmax.
Valid(c) == 0 < c[1] /\ c[1] < c[2]
\* The last call of hadronic_ps_gen had valid arguments and returned.
ValidPoint == point.err = "none" /\ Valid(cfg)
\* s + t + u as the notebook's test cell evaluates it.
stu == FAdd(FAdd(point.s, point.t), point.u)

\* C1, as the program has it: for every point returned for 0 < mmin < mmax,
\* s + t + u is zero up to the rounding of the floats: its magnitude is at
\* most 4 units in the last place of s, that is 2^(2 - P) * s.
C1_SumWithinRounding ==
  ValidPoint => Le(Abs(stu), <<point.s[1], point.s[2] + 2 - P>>)
\* A valid point whose s + t + u is not zero.
C1_Witness == ValidPoint /\ stu # Zero
\* C1 as stated: s + t + u = 0 for every point returned for 0 < mmin < mmax.
C1_SumIsZero == ValidPoint => stu = Zero

\* C2: for every point returned for 0 < mmin < mmax, 0 < x1 <= 1 and
\* 0 < x2 <= 1, and x1 * x2 lies between mmin^2 / mmax^2 and 1.
C2_FractionsInRange ==
  ValidPoint =>
    /\ Lt(Zero, point.x1) /\ Le(point.x1, One)
    /\ Lt(Zero, point.x2) /\ Le(point.x2, One)
    /\ Le(FDiv(FMul(Flt(cfg[1]), Flt(cfg[1])), FMul(Flt(cfg[2]), Flt(cfg[2]))),
          FMul(point.x1, point.x2))
    /\ Le(FMul(point.x1, point.x2), One)
\* A valid point with both fractions strictly inside (0, 1).
C2_Witness == ValidPoint /\ Lt(point.x1, One) /\ Lt(point.x2, One)

\* C3, as the program has it: for valid arguments the jacobian is never
\* negative, and it is positive exactly when the draw r1 is not 0; for
\* r1 = 0 it is 0.
C3_JacobianSign ==
  ValidPoint =>
    /\ point.jacobian[1] >= 0
    /\ (point.jacobian[1] > 0) <=> (point.r1[1] > 0)
\* A valid point drawn with r1 = 0, whose jacobian is 0.
C3_Witness == ValidPoint /\ point.r1 = Zero /\ point.jacobian = Zero
\* C3 as stated: the jacobian is strictly positive for every valid call.
C3_JacobianPositive == ValidPoint => point.jacobian[1] > 0

\* C10 as stated: a call with invalid arguments is rejected with an error
\* before any random number is drawn.
C10_InvalidRejected ==
  (point.err # "nocall" /\ ~Valid(cfg)) => (point.err # "none" /\ rng = rng0)

\* C12, as the program has it: a call of hadronic_ps_gen, whether it
\* returns or raises, leaves numpy's global generator three draws further
\* and changes nothing else outside its result.
C12_AdvancesGeneratorOnly ==
  [][(point.err = "nocall" /\ point'.err # "nocall") =>
       /\ rng' = (rng + 3) % Period
       /\ UNCHANGED <<calls, iter, grid, ev, fills, prev, me, shares, koch,
                      qc, readout>>]_vars
\* A call that returned and left the generator in another state.
C12_Witness == point.err = "none" /\ rng # rng0
\* C12 as stated: the generator is in the same state after a call as before.
C12_NoSideEffects == point.err = "none" => rng = rng0

\* mmin^2 and mmax^2 of the last call.
smin_of(c) == FMul(Flt(c[1]), Flt(c[1]))
smax_of(c) == FMul(Flt(c[2]), Flt(c[2]))
\* The float a is at least b less one unit in the last place of b.
LeUlp(b, a) == Le(FSub(b, <<1, b[2]>>), a)

\* C19, as the program has it: for every point returned for
\* 0 < mmin < mmax, tau0 <= tau <= 1, s <= mmax^2, -s <= t <= 0 and
\* -s <= u <= 0, and s is at least mmin^2 up to the rounding of
\* tau0 = smin / smax and s = tau * smax (one unit in the last place of
\* mmin^2).
C19_InvariantsInRange ==
  ValidPoint =>
    /\ Le(point.tau0, point.tau) /\ Le(point.tau, One)
    /\ LeUlp(smin_of(cfg), point.s) /\ Le(point.s, smax_of(cfg))
    /\ Le(Neg(point.s), point.t) /\ Le(point.t, Zero)
    /\ Le(Neg(point.s), point.u) /\ Le(point.u, Zero)
\* A valid point whose s is below mmin^2.
C19_Witness == ValidPoint /\ Lt(point.s, smin_of(cfg))
\* C19 as stated: mmin^2 <= s <= mmax^2, -s <= t <= 0 and -s <= u <= 0,
\* with tau0 <= tau <= 1.
C19_InRangeExactly ==
  ValidPoint =>
    /\ Le(point.tau0, point.tau) /\ Le(point.tau, One)
    /\ Le(smin_of(cfg), point.s) /\ Le(point.s, smax_of(cfg))
    /\ Le(Neg(point.s), point.t) /\ Le(point.t, Zero)
    /\ Le(Neg(point.s), point.u) /\ Le(point.u, Zero)

\* x1 * x2 * mmax^2 of the last call.
x1x2smax == FMul(FMul(point.x1, point.x2), smax_of(cfg))

\* C20, as the program has it: for every point returned, s equals
\* x1 * x2 * mmax^2 up to the rounding of the floats: the two differ by at
\* most 4 units in the last place of s.
C20_ProductWithinRounding ==
  point.err = "none" =>
    Le(Abs(FSub(point.s, x1x2smax)), <<Mag(point.s[1]), point.s[2] + 2 - P>>)
\* A point returned whose s is not x1 * x2 * mmax^2.
C20_Witness == point.err = "none" /\ point.s # x1x2smax
\* C20 as stated: s = x1 * x2 * mmax^2 for every point returned.
C20_ProductExact == point.err = "none" => point.s = x1x2smax

---------------------------------------------------------------------------
(* Properties of photon_photon_matrix_element (under SpecME).              *)

\* alpha0^2 * (t^2 + u^2) / (2 s t u): the formula over one denominator.
OneFraction(s, t, u) ==
  FDiv(FMul(FMul(alpha0, alpha0), FAdd(FMul(t, t), FMul(u, u))),
       FMul(FMul(Two, s), FMul(t, u)))

C7_CallOrder ==
  me.called =>
    /\ me.weight = FMul(One, photon_photon_matrix_element(me.s, me.t, me.u))
    /\ photon_photon_matrix_element(me.s, me.u, me.t)
         = photon_photon_matrix_element(me.s, me.t, me.u)
\* A call with t and u different.
C7_Witness == me.called /\ me.t # me.u

---------------------------------------------------------------------------
(* Properties of fill_grid and generate_grid (under Spec).                 *)

\* The observables o pass the cuts: pT > 14, |y| < 2.4 for both leptons,
\* 60 < M < 120.
PassesCuts(o) ==
  /\ FLt(Flt(14), o.ptl)
  /\ FLt(o.ylp, Lit(24, 10)) /\ FLt(o.ylm, Lit(24, 10))
  /\ FLt(Flt(60), o.mll) /\ FLt(o.mll, Flt(120))
\* The step is an iteration of the loop of fill_grid that ran to its end.
Iterated == pc = "fill" /\ pc' = "fill" /\ iter' = iter + 1

\* C4: an iteration whose event fails a cut leaves every bin of the
\* histogram as it was and calls grid.fill not at all.
C4_CutLeavesGrid ==
  [][(Iterated /\ ~PassesCuts(ev'.ob)) => (grid' = grid /\ fills' = fills)]_vars
\* A trial cut away for its transverse momentum below the threshold.
C4_Witness == ev.kind = "cut" /\ ~FLt(Flt(14), ev.ob.ptl)

\* The run of generate_grid that just ended started from the generator
\* state of the run before it, with the same calls.
SameStart ==
  pc \in {"done", "raised"} /\ prev.runs = 1 /\ prev.start = rng0 /\ prev.calls = calls

C8_AcceptedBinned ==
  (ev.kind = "filled" /\ FLt(Abs(ev.ob.yll), Lit(24, 10))) => ev.bin \in 1..NBins

\* C9 as stated: each accepted trial adds jacobian * hbarc2 / calls * M to
\* its bin (and leaves the other bins alone).
C9_AcceptedAdds ==
  [][(Iterated /\ PassesCuts(ev'.ob)) =>
       \E b \in 1..NBins :
         grid' = [grid EXCEPT ![b] =
                    FAdd(grid[b], FMul(converted(ev'.pt.jacobian, calls),
                                       photon_photon_matrix_element(ev'.pt.s, ev'.pt.t, ev'.pt.u)))]]_vars

\* The float w is a finite number: it is not inf and its magnitude is below
\* 2^1024, the limit of the program's floats.
isfinite(w) == w # Inf /\ Lt(Abs(w), <<1, 1024>>)

C16_NoZeroPt == ev.kind # "none" => ev.ob.ptl[1] # 0

\* The trial invoked photon_photon_matrix_element: it returned (and the
\* event was filled) or raised ZeroDivisionError.
Invoked == ev.kind = "filled" \/ ev.err = "ZeroDivisionError"

\* C17: fill_grid invokes photon_photon_matrix_element only with t < 0 and
\* u < 0, for a trial that passed the cut pT > 14.
C17_MatrixElementArguments ==
  Invoked => (ev.pt.t[1] < 0 /\ ev.pt.u[1] < 0 /\ FLt(Flt(14), ev.ob.ptl))
\* A trial that invoked the matrix element with t and u different.
C17_Witness == Invoked /\ ev.pt.t # ev.pt.u /\ ev.pt.s[1] > 0

\* C18 as stated: for calls >= 0 the loop of fill_grid ends after exactly
\* calls iterations, having drawn 3 * calls numbers and called grid.fill at
\* most calls times.
C18_ExactlyCallsIterations ==
  [][(pc = "fill" /\ pc' # "fill" /\ calls >= 0) =>
       /\ pc' = "done"
       /\ iter' = calls
       /\ rng' = (rng0 + 3 * calls) % Period
       /\ Len(fills') <= calls]_vars

\* C13 as stated: every weight accumulated is strictly positive and finite,
\* every bin is non-negative and never decreases from one trial to the
\* next, and the histogram has a positive bin as soon as one event is
\* accepted.
C13_PositiveTotal ==
  [][Iterated =>
       /\ \A b \in 1..NBins : Le(Zero, grid[b]) /\ Le(grid[b], grid'[b])
       /\ ev'.kind = "filled" =>
            /\ ev'.weight[1] > 0 /\ isfinite(ev'.weight)
            /\ \E b \in 1..NBins : grid'[b][1] > 0]_vars

\* C21 as stated: for every sampled point with pT > 0, pT <= M / 2, so the
\* argument of acosh is at least 1 and math.acosh raises nothing.
C21_AcoshInDomain ==
  (ev.kind # "none" /\ ev.ob.ptl[1] > 0) =>
    (Le(ev.ob.ptl, FMul(Half, ev.ob.mll)) /\ ev.ob.err = "none")

\* The larger of the floats a and b, either of which may be inf.
FMax(a, b) == IF FLt(a, b) THEN b ELSE a

\* C22: every event whose lepton rapidities ylp and ylm are both below 2.4
\* has |yll| <= max(ylp, ylm) < 2.4, and every observable passed to
\* grid.fill lies in [0, 2.4).
C22_PairRapidityBelowCut ==
  /\ (ev.kind \in {"cut", "filled"}
        /\ FLt(ev.ob.ylp, Lit(24, 10)) /\ FLt(ev.ob.ylm, Lit(24, 10))) =>
       /\ Le(Abs(ev.ob.yll), FMax(ev.ob.ylp, ev.ob.ylm))
       /\ Lt(FMax(ev.ob.ylp, ev.ob.ylm), Lit(24, 10))
  /\ \A i \in 1..Len(fills) : Le(Zero, fills[i][4]) /\ Lt(fills[i][4], Lit(24, 10))
\* An event filled with a pair rapidity other than 0, below the larger of
\* the lepton rapidities.
C22_Witness ==
  /\ ev.kind = "filled" /\ Len(fills) >= 1 /\ ev.ob.yll[1] # 0
  /\ Lt(Abs(ev.ob.yll), FMax(ev.ob.ylp, ev.ob.ylm))

---------------------------------------------------------------------------
(* Properties of the trials shared among workers (under SpecW).            *)

\* The floats a and b are equal up to rounding: they differ by at most 8
\* units in the last place of b.
Near(a, b) == Le(Abs(FSub(a, b)), <<Mag(b[1]), b[2] + 3 - P>>)

\* All runs ended without an exception and the histograms were summed.
Joined == shares.phase = "joined" /\ \A j \in 1..Sequential : shares.err[j] = "none"

\* C14 as stated: the bin-by-bin sum of the private histograms of the
\* workers equals (up to the rounding of the sums) the histogram of the run
\* that does all the trials.
C14_PrivateSumIsSequential ==
  Joined => \A b \in 1..NBins : Near(shares.sum[b], shares.hist[Sequential][b])

---------------------------------------------------------------------------
(* Properties of the Koch curve (under SpecKoch).                          *)

\* C27: koch_curve replaces each segment by exactly four segments: while
\* the segments are replaced new_points holds four for each one done, and
\* after iteration i all_points holds exactly 4^i segments, each of them an
\* array of two points.
C27_FourToTheI ==
  /\ koch.pc = "extend" => Len(koch.new_points) = 4 * (koch.old - 1)
  /\ koch.pc \in {"plot", "done"} =>
       /\ Len(koch.all_points) = 4^koch.i
       /\ \A m \in 1..Len(koch.all_points) : Len(koch.all_points[m]) = 2
\* The last iteration done: all_points holds 4^iterations segments.
C27_Witness ==
  /\ koch.pc = "done" /\ koch.i = iterations /\ koch.i >= 2
  /\ Len(koch.all_points) = 4^iterations

---------------------------------------------------------------------------
(* Properties of the Grover circuits (under SpecGrover).                   *)

\* The register value of the basis state b of n + 1 qubits: the number
\* whose binary digits are the bits of qubits 0..n-1, the highest first.
RECURSIVE register(_, _)
register(b, m) == IF m = 0 THEN 0 ELSE 2 * register(b, m - 1) + b[m]

\* C23: the oracle maps |x>|q> to |x>|q XOR f(x)> with f(x) = 1 exactly
\* when x is guilty_index: the register bits are left as they were, and the
\* ancilla is flipped for that one register value only.
C23_OracleAction ==
  qc.pc = "oracle" =>
    /\ \A m \in 1..qc.n : qc.out[m] = qc.inp[m]
    /\ qc.out[qc.n + 1] =
         (qc.inp[qc.n + 1] + IF register(qc.inp, qc.n) = qc.guilty_index THEN 1 ELSE 0) % 2
\* The oracle executed on the guilty register value, which has a zero bit
\* (so X gates were applied and undone): the ancilla is flipped.
C23_Witness ==
  /\ qc.pc = "oracle" /\ register(qc.inp, qc.n) = qc.guilty_index
  /\ \E m \in 1..qc.n : qc.inp[m] = 0
  /\ qc.out[qc.n + 1] # qc.inp[qc.n + 1]

\* The length of the oracle, of the diffusion operator and of the initial
\* layer of the circuit being built.
OracleLen == Len(build_oracle(qc.guilty_index, qc.n))
DiffusionLen == 4 * qc.n + 1
InitialLen == qc.n + 2
\* The gates of the circuit c from position m + 1 to position m + d.
Part(c, m, d) == SubSeq(c, m + 1, m + d)

\* C24: the circuit build_grover returns is the initial layer (X on the
\* ancilla, then H on each of the n + 1 qubits), then nsteps times the
\* oracle followed by the diffusion operator, then the measurements of
\* qubits 0..n-1 and nothing after them; no other gate is a measurement.
C24_GateSequence ==
  qc.pc = "built" =>
    /\ Len(qc.c) = InitialLen + qc.nsteps * (OracleLen + DiffusionLen) + qc.n
    /\ qc.c[1] = Gate("X", qc.n, {})
    /\ \A m \in 1..(qc.n + 1) : qc.c[1 + m] = Gate("H", m - 1, {})
    /\ \A j \in 0..(qc.nsteps - 1) :
         /\ Part(qc.c, InitialLen + j * (OracleLen + DiffusionLen), OracleLen)
              = build_oracle(qc.guilty_index, qc.n)
         /\ Part(qc.c, InitialLen + j * (OracleLen + DiffusionLen) + OracleLen,
                 DiffusionLen)
              = build_diffusion_operator(qc.n)
    /\ \A m \in 1..qc.n : qc.c[Len(qc.c) - qc.n + m] = Gate("M", m - 1, {})
    /\ \A m \in 1..(Len(qc.c) - qc.n) : qc.c[m].name # "M"
\* A circuit built with two Grover iterations.
C24_Witness == qc.pc = "built" /\ qc.nsteps = 2 /\ qc.step = 2

\* The gate acts on the qubit j or is controlled by it.
Touches(gate, j) == gate.q = j \/ j \in gate.controls

\* C26: the diffusion operator is an H layer, an X layer, Z on qubit 0
\* controlled by qubits 1..n-1, an X layer and an H layer on the register
\* qubits 0..n-1, and none of its gates touches the ancilla n; in the
\* circuit of build_grover the ancilla is touched only by the X and the H
\* of the initial layer and by the controlled X of the oracle.
C26_DiffusionOnRegister ==
  /\ qc.pc = "diffuser" =>
       /\ Len(qc.c) = 4 * qc.n + 1
       /\ \A m \in 1..qc.n :
            /\ qc.c[m] = Gate("H", m - 1, {})
            /\ qc.c[qc.n + m] = Gate("X", m - 1, {})
            /\ qc.c[2 * qc.n + 1 + m] = Gate("X", m - 1, {})
            /\ qc.c[3 * qc.n + 1 + m] = Gate("H", m - 1, {})
       /\ qc.c[2 * qc.n + 1] = Gate("Z", 0, 1..(qc.n - 1))
       /\ \A m \in 1..Len(qc.c) : ~Touches(qc.c[m], qc.n)
  /\ qc.pc \in {"loop", "built"} =>
       \A m \in 1..Len(qc.c) :
         Touches(qc.c[m], qc.n) =>
           \/ m = 1 \/ m = qc.n + 2
           \/ qc.c[m] = Gate("X", qc.n, 0..(qc.n - 1))
\* The diffusion operator on three qubits; a circuit of build_grover with
\* an iteration in it.
C26_Witness ==
  \/ qc.pc = "diffuser" /\ qc.n = 3
  \/ qc.pc = "built" /\ qc.step >= 1 /\ qc.n = 3

---------------------------------------------------------------------------
(* Properties of the readout cell (under SpecReadout).                     *)

\* C25 as stated: bitstrings[index], the state the message reports, is a
\* bitstring measured most often, whatever the outcome of the shots.
C25_ReportsMostFrequent ==
  readout.pc = "reported" =>
    \A m \in 1..Len(readout.tally) :
      readout.tally[m] <= readout.tally[readout.index + 1]

====
